---- MODULE Spec2Model ----
(***************************************************************************)
(* A model of dm_tool.py (DMTool): the nested-seat launcher                *)
(* add_nested_seat and the seat/session enumeration list_seats.            *)
(*                                                                         *)
(* The launcher is modelled with CPython 2 semantics, the interpreter the  *)
(* file is written for (StandardError, dbus-python):                       *)
(*   - a Python-level signal handler runs on the main thread between two   *)
(*     bytecodes, never while the thread is blocked in a system call;      *)
(*   - a signal that arrives while the thread is blocked in waitpid makes  *)
(*     the call fail with EINTR; the handler runs first, then OSError      *)
(*     (EINTR) is raised unless the handler itself raised;                 *)
(*   - os.kill only sends the signal: the target dies in a later step.     *)
(* One command runs per process, as main() does.                           *)
(***************************************************************************)
EXTENDS Integers, Sequences, FiniteSets, TLC

\* Size of the probed range; stands for range(65535 - 5000) of line 209.
ProbeRange == 4
\* Longest Seats list the manager serves.
MaxSeats == 2
\* How many SIGUSR1 the subordinate sends to its parent at most
\* (an X server notifies its parent after every server generation).
MaxSignals == 2

\* How many times add_nested_seat is entered on one DMTool object.
MaxInvocations == 2

VARIABLES
    pc,                    \* position of the main thread of the tool
    outcome,               \* how the running command ended
    markers,               \* numbers n for which /tmp/.X<n>-lock exists
    faults,                \* numbers n whose os.stat fails with an errno other than ENOENT
    probes,                \* os.stat calls made by the allocation loop
    xephyr_args,           \* *xephyr_args
    xephyr_display_number, \* local of add_nested_seat, closed over by the handler
    xephyr_cmd,            \* argv of the subordinate
    xephyr_pid,            \* local of add_nested_seat, closed over by the handler
    result,                \* local of add_nested_seat
    handler,               \* the process-wide disposition of SIGUSR1
    sighandler_result,     \* self._sighandler_result
    tripped,               \* SIGUSR1 received, Python handler not run yet
    child,                 \* the subordinate process
    quit,                  \* SIGQUIT was sent to the subordinate
    signalsSent,           \* SIGUSR1 sent by the subordinate so far
    regLog,                \* the AddLocalXSeat calls made, in order
    invocation,            \* add_nested_seat was entered this many times on the object
    xdg_seat_path,         \* os.environ under XDG_SEAT_PATH: no value or one
    method,                \* argument of _dbus_call
    object_path,           \* local of _dbus_call
    sent,                  \* the method calls sent over the bus by _dbus_call
    remote,                \* the display manager's objects, as the bus serves them
    output,                \* the lines printed to the StringIO of list_seats
    seats,                 \* local of list_seats
    seat_i,                \* position of the for loop over seats
    sessions,              \* local of list_seats
    session_j,             \* position of the for loop over sessions
    fetched,               \* the GetAll calls made, in order
    report                 \* the text list_seats returned

launchVars == <<markers, faults, probes, xephyr_args, xephyr_display_number,
                xephyr_cmd, xephyr_pid, result, handler, sighandler_result,
                tripped, child, quit, signalsSent, regLog, invocation>>

callVars == <<xdg_seat_path, method, object_path, sent>>

listVars == <<remote, output, seats, seat_i, sessions, session_j, fetched,
              report>>

vars == <<pc, outcome, launchVars, listVars, callVars>>

----------------------------------------------------------------------------
(* Values *)

Unbound == -1

\* A value or an error message: what a call returned or what was raised.
Val(tag, display, call) == [tag |-> tag, display |-> display, call |-> call]

NoVal == Val("unbound", Unbound, 0)

\* What AddLocalXSeat returned to call number `call` for display n.
RegValue(n, call) == Val("seat", n, call)

\* 'Unable to add seat: {0}'.format(e)
RegError(n, call) == Val("Unable to add seat", n, call)

LaunchFailed == Val("Xephyr launch failed", Unbound, 0)

NoFreeDisplay == Val("Did not find a free X11 display number!", Unbound, 0)

Running == [kind |-> "none", val |-> NoVal]

Returns(v) == [kind |-> "return", val |-> v]

Raises(e) == [kind |-> "raise", val |-> e]

\* One element of an argument vector.
Arg(s) == [text |-> s, display |-> Unbound]

\* ':{0}'.format(n)
DisplayArg(n) == [text |-> ":", display |-> n]

\* The passthrough arguments tried: none, an option, a display designator.
ArgPool == {<<>>, <<Arg("-ac")>>, <<DisplayArg(1)>>, <<Arg("-ac"), DisplayArg(2)>>}

Numbers == 0 .. (ProbeRange - 1)

----------------------------------------------------------------------------
(* The display-number allocation, lines 207-216 *)

\* os.stat('/tmp/.X{0}-lock'.format(n))
Stat(n, mk, fl) ==
    IF n \in fl THEN "EOTHER" ELSE IF n \in mk THEN "OK" ELSE "ENOENT"

\* The for loop: the first n whose stat raises ENOENT, Unbound when the loop
\* runs to its else clause.  Any other outcome of stat goes on to n + 1.
RECURSIVE ProbeFrom(_, _, _)
ProbeFrom(n, mk, fl) ==
    IF n >= ProbeRange THEN Unbound
    ELSE IF Stat(n, mk, fl) = "ENOENT" THEN n
    ELSE ProbeFrom(n + 1, mk, fl)

\* The number of os.stat calls the loop makes.
ProbeCount(mk, fl) ==
    IF ProbeFrom(0, mk, fl) = Unbound THEN ProbeRange ELSE ProbeFrom(0, mk, fl) + 1

----------------------------------------------------------------------------
(* Object paths and property bags *)

\* An object path is the sequence of its separators, names and digits.
DMPath == <<"/", "org", "/", "freedesktop", "/", "DisplayManager">>

Digits == {"0", "1", "2", "3", "4", "5", "6", "7", "8", "9"}

SeatPath(d) == DMPath \o <<"/", "Seat">> \o d

SessionPath(d) == DMPath \o <<"/", "Session">> \o d

NoPath == <<>>

\* path.rstrip('0123456789')
RECURSIVE RStripDigits(_)
RStripDigits(p) ==
    IF p # <<>> /\ p[Len(p)] \in Digits
      THEN RStripDigits(SubSeq(p, 1, Len(p) - 1))
      ELSE p

\* A variant of Interfaces with the names of the seat and session entries
\* exchanged.
InterfacesSwapped ==
    [q \in {DMPath, SeatPath(<<>>), SessionPath(<<>>)} |->
        IF q = DMPath THEN <<"org", ".", "freedesktop", ".", "DisplayManager">>
        ELSE IF q = SeatPath(<<>>)
          THEN <<"org", ".", "freedesktop", ".", "DisplayManager", ".", "Session">>
          ELSE <<"org", ".", "freedesktop", ".", "DisplayManager", ".", "Seat">>]

\* dict(self._dbus_proxies.values()): object path -> interface.
Interfaces ==
    [q \in {DMPath, SeatPath(<<>>), SessionPath(<<>>)} |->
        IF q = DMPath THEN <<"org", ".", "freedesktop", ".", "DisplayManager">>
        ELSE IF q = SeatPath(<<>>)
          THEN <<"org", ".", "freedesktop", ".", "DisplayManager", ".", "Seat">>
          ELSE <<"org", ".", "freedesktop", ".", "DisplayManager", ".", "Session">>]

\* The separator of get_name_from_path.
NameSep == DMPath \o <<"/">>

\* str.split(sep)[-1]: what follows the last occurrence of sep, found from
\* the left without overlap; the whole string when sep does not occur.
RECURSIVE LastPiece(_, _)
LastPiece(p, sep) ==
    LET hits == {i \in 1 .. Len(p) :
                    /\ i + Len(sep) - 1 <= Len(p)
                    /\ SubSeq(p, i, i + Len(sep) - 1) = sep}
    IN  IF hits = {} THEN p
        ELSE LET first == CHOOSE i \in hits : \A k \in hits : i <= k
             IN  LastPiece(SubSeq(p, first + Len(sep), Len(p)), sep)

\* Lines 157-158.
get_name_from_path(path) == LastPiece(path, NameSep)

\* A property value: its D-Bus type and what it holds, a list of token
\* sequences (one for a scalar or a path, one per element for an array).
DString(t) == [type |-> "String", val |-> <<<<t>>>>]

DBoolean(b) == [type |-> "Boolean", val |-> <<<<IF b THEN "1" ELSE "0">>>>]

DObjectPath(p) == [type |-> "ObjectPath", val |-> <<p>>]

DArray(ps) == [type |-> "Array", val |-> ps]

\* The property names served, in the order sorted() puts them.
KeyOrder == <<"CanSwitch", "HasGuestAccount", "Links", "Seat", "Seats",
              "Sessions", "UserName">>

\* [k for k, v in sorted(properties.items())]
SortedKeys(bag) == SelectSeq(KeyOrder, LAMBDA k : k \in DOMAIN bag)

RECURSIVE Flatten(_)
Flatten(ps) == IF ps = <<>> THEN <<>> ELSE Head(ps) \o <<",">> \o Flatten(Tail(ps))

\* Lines 51-56: FORMATS[type(value)], the formatter applied.
FormatValue(value) ==
    IF value.type = "String" THEN <<"'">> \o value.val[1] \o <<"'">>
    ELSE IF value.type = "Boolean"
      THEN <<IF value.val[1] = <<"1">> THEN "true" ELSE "false">>
    ELSE IF value.type = "Array"
      THEN <<"dbus.Array([">> \o Flatten(value.val) \o <<"])">>
      ELSE value.val[1]

Line(indent, text) == [indent |-> indent, text |-> text]

\* Lines 59-61.
print_item(key, value, indent) == Line(indent, <<key, "=">> \o FormatValue(value))

\* The lines print_item writes for the properties of a node, in sorted
\* order, leaving out the key `skip` (lines 173-176 and 188-191).
RECURSIVE PrintKeys(_, _, _, _)
PrintKeys(keys, bag, skip, indent) ==
    IF keys = <<>> THEN <<>>
    ELSE (IF Head(keys) = skip THEN <<>>
          ELSE <<print_item(Head(keys), bag[Head(keys)], indent)>>)
         \o PrintKeys(Tail(keys), bag, skip, indent)

PrintProperties(bag, skip, indent) == PrintKeys(SortedKeys(bag), bag, skip, indent)

\* output.getvalue().rstrip('\n'): the trailing empty lines go.
RECURSIVE RStripNewlines(_)
RStripNewlines(out) ==
    IF out # <<>> /\ out[Len(out)] = Line(0, <<>>)
      THEN RStripNewlines(SubSeq(out, 1, Len(out) - 1))
      ELSE out

----------------------------------------------------------------------------
(* The remote objects *)

Seat0 == SeatPath(<<"0">>)

Seat1 == SeatPath(<<"1">>)

Session0 == SessionPath(<<"0">>)

Session10 == SessionPath(<<"1", "0">>)

SeatPool == {Seat0, Seat1}

\* Sequences over S of length at most n.
SeqsUpTo(S, n) == UNION {[1 .. k -> S] : k \in 0 .. n}

\* What a seat lists as its sessions: nothing, one session, two sessions,
\* a session and the seat itself.
SessionChoices == {"none", "one", "two", "self"}

\* A further property "Links" of every seat and session: absent, the path
\* of the node's parent (for a seat: its own path), or a list of sessions.
LinkChoices == {"absent", "path", "list"}

Remotes ==
    [seats : SeqsUpTo(SeatPool, MaxSeats),
     sess : [SeatPool -> SessionChoices],
     links : LinkChoices]

NoRemote == [seats |-> <<>>, sess |-> [p \in SeatPool |-> "none"], links |-> "absent"]

SessionsOf(r, p) ==
    IF r.sess[p] = "none" THEN <<>>
    ELSE IF r.sess[p] = "one" THEN <<Session0>>
    ELSE IF r.sess[p] = "two" THEN <<Session10, Session0>>
    ELSE <<Session0, p>>

\* The seat a session belongs to.
SeatOf(q) == IF q = Session10 THEN Seat1 ELSE Seat0

WithLinks(r, bag, back) ==
    IF r.links = "absent" THEN bag
    ELSE [k \in DOMAIN bag \cup {"Links"} |->
            IF k # "Links" THEN bag[k]
            ELSE IF r.links = "path" THEN DObjectPath(back)
            ELSE DArray(<<Session10>>)]

\* What GetAll returns for the object at `path`.
GetAll(r, path) ==
    IF path = DMPath
      THEN [k \in {"Seats", "Sessions"} |->
              IF k = "Seats" THEN DArray(r.seats) ELSE DArray(<<Session0>>)]
    ELSE IF path \in SeatPool
      THEN WithLinks(r, [k \in {"CanSwitch", "HasGuestAccount", "Sessions"} |->
                            IF k = "CanSwitch" THEN DBoolean(TRUE)
                            ELSE IF k = "HasGuestAccount" THEN DBoolean(FALSE)
                            ELSE DArray(SessionsOf(r, path))], path)
      ELSE WithLinks(r, [k \in {"Seat", "UserName"} |->
                            IF k = "Seat" THEN DObjectPath(SeatOf(path))
                            ELSE DString("alice")], SeatOf(path))

----------------------------------------------------------------------------
(* list_seats, lines 145-193 *)

NoReport == <<Line(Unbound, <<"no report">>)>>

DBusError == Val("DBusException", Unbound, 0)

KeyErr == Val("KeyError", Unbound, 0)

\* Lines 151-155: the interface is looked up under the path without its
\* trailing digits; the lookup raises KeyError for any other path and no
\* call is made.
HasInterface(path) == RStripDigits(path) \in DOMAIN Interfaces

\* A variant of OnFetchError that falls back to the text printed so far.
OnFetchErrorPartial(out) ==
    [outcome |-> Returns(Val("report", Unbound, 0)), report |-> RStripNewlines(out)]

\* No statement of list_seats catches an exception of get_properties: the
\* command ends with it and the StringIO is dropped.
OnFetchError(out) == [outcome |-> Raises(DBusError), report |-> NoReport]

\* Lines 153-155: intf = interfaces[path], the name GetAll is called with.
InterfaceOf(path) == Interfaces[RStripDigits(path)]

Fetch(path, via, ok) ==
    [path |-> path, via |-> via, ok |-> ok, intf |-> InterfaceOf(path)]

StartList(r) ==
    /\ pc = "idle"
    /\ pc' = "list_dm"
    /\ remote' = r
    /\ output' = <<>>
    /\ UNCHANGED <<callVars, outcome, launchVars, seats, seat_i, sessions,
                   session_j, fetched, report>>

\* Lines 162-163.
GetManager(ok) ==
    /\ pc = "list_dm"
    /\ fetched' = Append(fetched, Fetch(DMPath, NoPath, ok))
    /\ IF ok
         THEN /\ seats' = GetAll(remote, DMPath)["Seats"].val
              /\ seat_i' = 1
              /\ pc' = "list_seat"
              /\ UNCHANGED <<outcome, report>>
         ELSE /\ outcome' = OnFetchError(output).outcome
              /\ report' = OnFetchError(output).report
              /\ pc' = "done"
              /\ UNCHANGED <<seats, seat_i>>
    /\ UNCHANGED <<callVars, launchVars, remote, output, sessions, session_j>>

\* Lines 165-178: one turn of the loop over seats, up to the loop over the
\* seat's sessions.
GetSeat(ok) ==
    /\ pc = "list_seat"
    /\ seat_i <= Len(seats)
    /\ LET seat == seats[seat_i]
           named == Append(output, Line(0, get_name_from_path(seat)))
           properties == GetAll(remote, seat)
       IN  IF ~HasInterface(seat)
             THEN /\ outcome' = Raises(KeyErr)
                  /\ report' = NoReport
                  /\ pc' = "done"
                  /\ output' = named
                  /\ UNCHANGED <<sessions, session_j, fetched>>
           ELSE IF ok
             THEN /\ fetched' = Append(fetched, Fetch(seat, DMPath, ok))
                  /\ output' = named \o PrintProperties(properties, "Sessions", 2)
                  /\ sessions' = properties["Sessions"].val
                  /\ session_j' = 1
                  /\ pc' = "list_session"
                  /\ UNCHANGED <<outcome, report>>
             ELSE /\ fetched' = Append(fetched, Fetch(seat, DMPath, ok))
                  /\ output' = named
                  /\ outcome' = OnFetchError(named).outcome
                  /\ report' = OnFetchError(named).report
                  /\ pc' = "done"
                  /\ UNCHANGED <<sessions, session_j>>
    /\ UNCHANGED <<callVars, launchVars, remote, seats, seat_i>>

\* Lines 180-191: one turn of the loop over the sessions of a seat.
GetSession(ok) ==
    /\ pc = "list_session"
    /\ session_j <= Len(sessions)
    /\ LET session == sessions[session_j]
           named == Append(output, Line(2, get_name_from_path(session)))
           properties == GetAll(remote, session)
       IN  IF ~HasInterface(session)
             THEN /\ outcome' = Raises(KeyErr)
                  /\ report' = NoReport
                  /\ pc' = "done"
                  /\ output' = named
                  /\ UNCHANGED <<session_j, fetched>>
           ELSE IF ok
             THEN /\ fetched' = Append(fetched, Fetch(session, seats[seat_i], ok))
                  /\ output' = named \o PrintProperties(properties, "Seat", 4)
                  /\ session_j' = session_j + 1
                  /\ pc' = "list_session"
                  /\ UNCHANGED <<outcome, report>>
             ELSE /\ fetched' = Append(fetched, Fetch(session, seats[seat_i], ok))
                  /\ output' = named
                  /\ outcome' = OnFetchError(named).outcome
                  /\ report' = OnFetchError(named).report
                  /\ pc' = "done"
                  /\ UNCHANGED session_j
    /\ UNCHANGED <<callVars, launchVars, remote, seats, seat_i, sessions>>

\* A variant of SessionsDone that passes over the seat that follows.
SessionsDoneSkipping ==
    /\ pc = "list_session"
    /\ session_j > Len(sessions)
    /\ seat_i' = seat_i + 2
    /\ pc' = "list_seat"
    /\ UNCHANGED <<callVars, outcome, launchVars, remote, output, seats,
                   sessions, session_j, fetched, report>>

\* Line 180: the loop over the sessions is exhausted, the loop over the
\* seats goes on.
SessionsDone ==
    /\ pc = "list_session"
    /\ session_j > Len(sessions)
    /\ seat_i' = seat_i + 1
    /\ pc' = "list_seat"
    /\ UNCHANGED <<callVars, outcome, launchVars, remote, output, seats,
                   sessions, session_j, fetched, report>>

\* Line 193.
ListReturn ==
    /\ pc = "list_seat"
    /\ seat_i > Len(seats)
    /\ report' = RStripNewlines(output)
    /\ outcome' = Returns(Val("report", Unbound, 0))
    /\ pc' = "done"
    /\ UNCHANGED <<callVars, launchVars, remote, output, seats, seat_i, sessions,
                   session_j, fetched>>


----------------------------------------------------------------------------
Init ==
    /\ pc = "idle"
    /\ outcome = Running
    /\ markers = {}
    /\ faults = {}
    /\ probes = 0
    /\ xephyr_args = <<>>
    /\ xephyr_display_number = Unbound
    /\ xephyr_cmd = <<>>
    /\ xephyr_pid = Unbound
    /\ result = NoVal
    /\ handler = "SIG_DFL"
    /\ sighandler_result = NoVal
    /\ tripped = FALSE
    /\ child = "none"
    /\ quit = FALSE
    /\ signalsSent = 0
    /\ regLog = <<>>
    /\ invocation = 0
    /\ xdg_seat_path = {}
    /\ method = ""
    /\ object_path = NoPath
    /\ sent = <<>>
    /\ remote = NoRemote
    /\ output = <<>>
    /\ seats = <<>>
    /\ seat_i = 0
    /\ sessions = <<>>
    /\ session_j = 0
    /\ fetched = <<>>
    /\ report = NoReport

----------------------------------------------------------------------------
(* add_nested_seat, the main thread *)

\* The command is entered with its arguments; the lock markers are what
\* the filesystem holds when the allocation loop runs.
StartLaunch(args, mk, fl) ==
    /\ pc = "idle"
    /\ pc' = "alloc"
    /\ xephyr_args' = args
    /\ markers' = mk
    /\ faults' = fl
    /\ invocation' = invocation + 1
    /\ UNCHANGED <<listVars, callVars, outcome, probes,
                   xephyr_display_number, xephyr_cmd,
                   xephyr_pid, result, handler, sighandler_result, tripped,
                   child, quit, signalsSent, regLog>>

\* Lines 209-216.  A loop that ends without break leaves the loop variable
\* at the last number probed and raises.
Allocate ==
    /\ pc = "alloc"
    /\ ~tripped
    /\ probes' = ProbeCount(markers, faults)
    /\ IF ProbeFrom(0, markers, faults) = Unbound
         THEN /\ xephyr_display_number' = ProbeRange - 1
              /\ outcome' = Raises(NoFreeDisplay)
              /\ pc' = "done"
         ELSE /\ xephyr_display_number' = ProbeFrom(0, markers, faults)
              /\ outcome' = outcome
              /\ pc' = "arm"
    /\ UNCHANGED <<listVars, callVars, invocation,
                   markers, faults, xephyr_args, xephyr_cmd, xephyr_pid,
                   result, handler, sighandler_result, tripped, child, quit,
                   signalsSent, regLog>>

\* A variant of Arm that goes on to the fork without installing the handler.
ArmSkipped ==
    /\ pc = "arm"
    /\ ~tripped
    /\ handler' = handler
    /\ markers' = {}
    /\ faults' = {}
    /\ pc' = "fork"
    /\ UNCHANGED <<listVars, callVars, invocation,
                   outcome, probes, xephyr_args, xephyr_display_number,
                   xephyr_cmd, xephyr_pid, result, sighandler_result, tripped,
                   child, quit, signalsSent, regLog>>

\* Line 219: signal.signal(signal.SIGUSR1, xephyr_signal_cb).  The lock
\* markers are not read again: what the filesystem holds from here on is
\* left out of the state.
Arm ==
    /\ pc = "arm"
    /\ ~tripped
    /\ handler' = "xephyr_signal_cb"
    /\ markers' = {}
    /\ faults' = {}
    /\ pc' = "fork"
    /\ UNCHANGED <<listVars, callVars, invocation,
                   outcome, probes, xephyr_args, xephyr_display_number,
                   xephyr_cmd, xephyr_pid, result, sighandler_result, tripped,
                   child, quit, signalsSent, regLog>>

\* Lines 221-223.
XephyrCmd(n, args) == <<Arg("Xephyr"), DisplayArg(n)>> \o args

\* Lines 221-225: the command is built and os.fork() returns in the parent;
\* the pid is not stored in xephyr_pid yet.
Fork ==
    /\ pc = "fork"
    /\ ~tripped
    /\ xephyr_cmd' = XephyrCmd(xephyr_display_number, xephyr_args)
    /\ child' = "forked"
    /\ pc' = "store_pid"
    /\ UNCHANGED <<listVars, callVars, invocation,
                   outcome, markers, faults, probes, xephyr_args,
                   xephyr_display_number, xephyr_pid, result, handler,
                   sighandler_result, tripped, quit, signalsSent, regLog>>

\* Line 225: os.fork() raises OSError, no child exists.
ForkFails ==
    /\ pc = "fork"
    /\ ~tripped
    /\ xephyr_cmd' = XephyrCmd(xephyr_display_number, xephyr_args)
    /\ outcome' = Raises(Val("OSError fork", Unbound, 0))
    /\ pc' = "done"
    /\ UNCHANGED <<listVars, callVars, invocation,
                   markers, faults, probes, xephyr_args, xephyr_display_number,
                   xephyr_pid, result, handler, sighandler_result, tripped,
                   child, quit, signalsSent, regLog>>

\* Lines 225-226: xephyr_pid = <the child's pid>, which is not 0.
StorePid ==
    /\ pc = "store_pid"
    /\ ~tripped
    /\ xephyr_pid' = 1
    /\ pc' = "waitpid_call"
    /\ UNCHANGED <<listVars, callVars, invocation,
                   outcome, markers, faults, probes, xephyr_args,
                   xephyr_display_number, xephyr_cmd, result, handler,
                   sighandler_result, tripped, child, quit, signalsSent, regLog>>

\* Line 240: the main thread enters the waitpid system call.  A SIGUSR1 that
\* arrived after the interpreter's last check for signals is still unhandled
\* here: the call blocks all the same.
EnterWaitpid ==
    /\ pc = "waitpid_call"
    /\ pc' = "in_waitpid"
    /\ UNCHANGED <<listVars, callVars, outcome, launchVars>>

\* A variant of WaitpidReturns in which the wait is not completed while a
\* SIGUSR1 is pending.
WaitpidReturnsUnsignalled ==
    /\ pc = "in_waitpid"
    /\ child = "zombie"
    /\ ~tripped
    /\ child' = "reaped"
    /\ pc' = "return"
    /\ UNCHANGED <<listVars, callVars, invocation,
                   outcome, markers, faults, probes, xephyr_args,
                   xephyr_display_number, xephyr_cmd, xephyr_pid, result,
                   handler, sighandler_result, tripped, quit, signalsSent,
                   regLog>>

\* Line 240: the child has exited, waitpid reaps it and returns.
WaitpidReturns ==
    /\ pc = "in_waitpid"
    /\ child = "zombie"
    /\ child' = "reaped"
    /\ pc' = "return"
    /\ UNCHANGED <<listVars, callVars, invocation,
                   outcome, markers, faults, probes, xephyr_args,
                   xephyr_display_number, xephyr_cmd, xephyr_pid, result,
                   handler, sighandler_result, tripped, quit, signalsSent,
                   regLog>>

\* Lines 241-244: OSError with errno EINTR, result = self._sighandler_result.
CatchEINTR ==
    /\ pc = "except_eintr"
    /\ ~tripped
    /\ result' = sighandler_result
    /\ pc' = "return"
    /\ UNCHANGED <<listVars, callVars, invocation,
                   outcome, markers, faults, probes, xephyr_args,
                   xephyr_display_number, xephyr_cmd, xephyr_pid, handler,
                   sighandler_result, tripped, child, quit, signalsSent, regLog>>

\* A variant of FinalOutcome that returns whatever result holds, bound or not.
FinalOutcomeUnchecked(res) == Returns(res)

\* Lines 248-252: return result, or 'Xephyr launch failed' when result was
\* never bound.
FinalOutcome(res) ==
    IF res = NoVal THEN Raises(LaunchFailed) ELSE Returns(res)

Return ==
    /\ pc = "return"
    /\ ~tripped
    /\ outcome' = FinalOutcome(result)
    /\ pc' = "done"
    /\ UNCHANGED <<listVars, callVars, launchVars>>

----------------------------------------------------------------------------
(* The SIGUSR1 handler, lines 198-205 *)

\* os.kill(xephyr_pid, signal.SIGQUIT) of line 204: NameError while the
\* closure variable is unbound, ESRCH once the child was reaped (unless the
\* pid was given to another process), else the signal is sent.
KillOutcome(pid, ch, reused) ==
    IF pid = Unbound THEN "NameError"
    ELSE IF ch = "reaped" /\ ~reused THEN "ESRCH"
    ELSE IF ch = "reaped" THEN "stranger"
    ELSE "sent"

\* What the except branch of the handler raises.
HandlerError(n, call, killed) ==
    IF killed = "NameError" THEN Val("NameError xephyr_pid", n, call)
    ELSE IF killed = "ESRCH" THEN Val("OSError ESRCH", n, call)
    ELSE RegError(n, call)

\* The command on the main thread is between its entry and its end.
InCommand == pc \notin {"idle", "done"}

\* The handler runs between two bytecodes of the main thread (after an
\* interrupted waitpid: before OSError is raised).  An exception it raises
\* propagates through whatever the main thread is executing.
RunHandler(ok, reused) ==
    /\ tripped
    /\ handler = "xephyr_signal_cb"
    /\ pc # "in_waitpid"
    /\ tripped' = FALSE
    /\ LET call == Len(regLog) + 1
           n == xephyr_display_number
           killed == KillOutcome(xephyr_pid, child, reused)
       IN  /\ regLog' = Append(regLog, [display |-> n, ok |-> ok, inv |-> invocation])
           /\ IF ok
                THEN /\ sighandler_result' = RegValue(n, call)
                     /\ quit' = quit
                     /\ outcome' = outcome
                     /\ pc' = IF pc = "eintr" THEN "except_eintr" ELSE pc
                ELSE /\ sighandler_result' = RegError(n, call)
                     /\ quit' = (quit \/ killed = "sent")
                     /\ outcome' = IF InCommand
                                     THEN Raises(HandlerError(n, call, killed))
                                     ELSE outcome
                     /\ pc' = IF InCommand THEN "done" ELSE pc
    /\ UNCHANGED <<listVars, callVars, invocation,
                   markers, faults, probes, xephyr_args, xephyr_display_number,
                   xephyr_cmd, xephyr_pid, result, handler, child, signalsSent>>

----------------------------------------------------------------------------
(* The subordinate process *)

\* Lines 226-232: the child closes its descriptors, ignores SIGUSR1 and
\* execs Xephyr.
ChildExec ==
    /\ child = "forked"
    /\ child' = "running"
    /\ UNCHANGED <<listVars, callVars, invocation,
                   pc, outcome, markers, faults, probes, xephyr_args,
                   xephyr_display_number, xephyr_cmd, xephyr_pid, result,
                   handler, sighandler_result, tripped, quit, signalsSent,
                   regLog>>

\* Lines 233-237: os.execlp fails and the child exits.
ChildExecFails ==
    /\ child = "forked"
    /\ child' = "zombie"
    /\ UNCHANGED <<listVars, callVars, invocation,
                   pc, outcome, markers, faults, probes, xephyr_args,
                   xephyr_display_number, xephyr_cmd, xephyr_pid, result,
                   handler, sighandler_result, tripped, quit, signalsSent,
                   regLog>>

\* Xephyr sends SIGUSR1 to its parent.  A parent blocked in waitpid is
\* woken with EINTR.
ChildSignals ==
    /\ child = "running"
    /\ signalsSent < MaxSignals
    /\ signalsSent' = signalsSent + 1
    /\ tripped' = TRUE
    /\ pc' = IF pc = "in_waitpid" THEN "eintr" ELSE pc
    /\ UNCHANGED <<listVars, callVars, invocation,
                   outcome, markers, faults, probes, xephyr_args,
                   xephyr_display_number, xephyr_cmd, xephyr_pid, result,
                   handler, sighandler_result, child, quit, regLog>>

\* Xephyr exits of its own accord (a display collision, a crash, its end).
ChildExits ==
    /\ child = "running"
    /\ child' = "zombie"
    /\ UNCHANGED <<listVars, callVars, invocation,
                   pc, outcome, markers, faults, probes, xephyr_args,
                   xephyr_display_number, xephyr_cmd, xephyr_pid, result,
                   handler, sighandler_result, tripped, quit, signalsSent,
                   regLog>>

\* The SIGQUIT sent by the handler ends the child.
ChildQuits ==
    /\ child \in {"forked", "running"}
    /\ quit
    /\ child' = "zombie"
    /\ UNCHANGED <<listVars, callVars, invocation,
                   pc, outcome, markers, faults, probes, xephyr_args,
                   xephyr_display_number, xephyr_cmd, xephyr_pid, result,
                   handler, sighandler_result, tripped, quit, signalsSent,
                   regLog>>

----------------------------------------------------------------------------
(* _dbus_call, lines 102-121 *)

\* Lines 82-89: the proxy a method belongs to.
SeatMethods == {"SwitchToGreeter", "SwitchToUser", "SwitchToGuest", "Lock"}

Methods == SeatMethods \cup {"AddLocalXSeat", "AddSeat"}

MethodType(m) == IF m \in SeatMethods THEN "seat" ELSE "dm"

\* Lines 70-77: the object path of a proxy.
ProxyPath(type) ==
    IF type = "dm" THEN DMPath
    ELSE IF type = "seat" THEN SeatPath(<<>>)
    ELSE SessionPath(<<>>)

\* str.startswith
StartsWith(p, prefix) ==
    Len(p) >= Len(prefix) /\ SubSeq(p, 1, Len(prefix)) = prefix

Seat12 == SeatPath(<<"1", "2">>)

\* Values XDG_SEAT_PATH may hold: seat paths, the seat prefix alone, a seat
\* path with more behind it, other objects' paths, a relative name, the
\* empty string.
EnvPool ==
    {Seat0, Seat12, SeatPath(<<>>), SeatPath(<<"0", "/", "x">>), Session0,
     DMPath, <<"Seat", "0">>, <<>>}

Environments == {{}} \cup {{p} : p \in EnvPool}

ConfigError == Val("Not running inside a display manager", Unbound, 0)

Reply == Val("reply", Unbound, 0)

\* Lines 104-105, entered from one of the commands of lines 129-143 and
\* 254-279.
StartCall(m, e) ==
    /\ pc = "idle"
    /\ pc' = "dbus_call"
    /\ method' = m
    /\ xdg_seat_path' = e
    /\ object_path' = ProxyPath(MethodType(m))
    /\ UNCHANGED <<listVars, outcome, launchVars, sent>>

\* Lines 106-115: for a seat method the path comes from the environment;
\* a missing key and a value that does not start with the seat prefix both
\* end in StandardError.
ResolvePath ==
    /\ pc = "dbus_call"
    /\ IF MethodType(method) # "seat"
         THEN /\ pc' = "invoke"
              /\ UNCHANGED <<outcome, object_path>>
         ELSE IF \E p \in xdg_seat_path : StartsWith(p, object_path)
           THEN /\ object_path' \in xdg_seat_path
                /\ pc' = "invoke"
                /\ outcome' = outcome
           ELSE /\ outcome' = Raises(ConfigError)
                /\ pc' = "done"
                /\ UNCHANGED object_path
    /\ UNCHANGED <<listVars, launchVars, xdg_seat_path, method, sent>>

\* Lines 116-121: the method is called on the object at object_path.
Invoke(ok) ==
    /\ pc = "invoke"
    /\ sent' = Append(sent, [method |-> method, path |-> object_path,
                             interface |-> Interfaces[ProxyPath(MethodType(method))]])
    /\ outcome' = IF ok THEN Returns(Reply) ELSE Raises(DBusError)
    /\ pc' = "done"
    /\ UNCHANGED <<listVars, launchVars, xdg_seat_path, method, object_path>>

----------------------------------------------------------------------------
\* The steps of the tool's own process.
ParentNext ==
    \/ \E args \in ArgPool, mk \in SUBSET Numbers, fl \in SUBSET Numbers :
          StartLaunch(args, mk, fl)
    \/ Allocate
    \/ Arm
    \/ Fork
    \/ ForkFails
    \/ StorePid
    \/ EnterWaitpid
    \/ WaitpidReturns
    \/ CatchEINTR
    \/ Return
    \/ \E ok \in BOOLEAN, reused \in BOOLEAN : RunHandler(ok, reused)

ChildNext ==
    \/ ChildExec
    \/ ChildExecFails
    \/ ChildSignals
    \/ ChildExits
    \/ ChildQuits

Next == ParentNext \/ ChildNext

Spec == Init /\ [][Next]_vars

\* The interpreter goes on running the main thread and the kernel delivers
\* SIGQUIT; the child gets to its exec.  Whether and when Xephyr signals or
\* exits is up to Xephyr.
FairSpec ==
    /\ Spec
    /\ WF_vars(ParentNext)
    /\ WF_vars(ChildQuits)
    /\ WF_vars(ChildExec \/ ChildExecFails)

ListNext ==
    \/ \E r \in Remotes : StartList(r)
    \/ \E ok \in BOOLEAN : GetManager(ok)
    \/ \E ok \in BOOLEAN : GetSeat(ok)
    \/ \E ok \in BOOLEAN : GetSession(ok)
    \/ SessionsDone
    \/ ListReturn

ListSpec == Init /\ [][ListNext]_vars

\* The command, once entered, goes on running; a GetAll call comes back
\* with a reply or an error.
ListFairSpec == ListSpec /\ WF_vars(ListNext)

\* Lines 97-100: add_nested_seat is called again on the same object.  The
\* locals of the finished call are gone; self._sighandler_result and the
\* disposition of SIGUSR1 are the object's and the process's and stay.
\* Taken here once the subordinate of the finished call has ended and no
\* SIGUSR1 is pending.
NextInvocation ==
    /\ pc = "done"
    /\ invocation >= 1
    /\ invocation < MaxInvocations
    /\ ~tripped
    /\ child \notin {"forked", "running"}
    /\ pc' = "idle"
    /\ outcome' = Running
    /\ probes' = 0
    /\ xephyr_args' = <<>>
    /\ xephyr_display_number' = Unbound
    /\ xephyr_cmd' = <<>>
    /\ xephyr_pid' = Unbound
    /\ result' = NoVal
    /\ child' = "none"
    /\ quit' = FALSE
    /\ UNCHANGED <<listVars, callVars, invocation, markers, faults, handler,
                   sighandler_result, tripped, signalsSent, regLog>>

SeqNext == Next \/ NextInvocation

SeqSpec == Init /\ [][SeqNext]_vars

CallNext ==
    \/ \E m \in Methods, e \in Environments : StartCall(m, e)
    \/ ResolvePath
    \/ \E ok \in BOOLEAN : Invoke(ok)

CallSpec == Init /\ [][CallNext]_vars

----------------------------------------------------------------------------
(* Properties of add_nested_seat *)

\* Every AddLocalXSeat call made so far succeeded, and one was made.
RegSucceeded == regLog # <<>> /\ \A i \in DOMAIN regLog : regLog[i].ok

RegFailed == \E i \in DOMAIN regLog : ~regLog[i].ok

ChildAlive == child \in {"forked", "running"}

ReturnedSeat == outcome.kind = "return" /\ outcome.val.tag = "seat"

\* C1: when the subordinate has sent its readiness notification and goes on
\* running and the registration call succeeded, the operation returns: in
\* every interleaving it gets to return the value of the registration call,
\* with no SIGQUIT sent to the subordinate.  (A subordinate that exits, a
\* further notification or a failed registration end the case.)
C1_HappyPathReturns ==
    /\ (RegSucceeded /\ child = "running" /\ signalsSent = 1)
          ~> \/ RegFailed
             \/ child # "running"
             \/ signalsSent > 1
             \/ ReturnedSeat /\ ~quit
    /\ [](pc = "done" /\ RegSucceeded /\ child = "running" =>
              ReturnedSeat /\ ~quit)

\* C2: when the operation ends after a registration call failed, the error
\* raised is the registration failure and the subordinate is no longer
\* running.
C2_RollbackKillsChild ==
    [][(pc # "done" /\ pc' = "done" /\ RegFailed')
          => /\ outcome'.kind = "raise"
             /\ outcome'.val.tag = "Unable to add seat"
             /\ ~ChildAlive']_vars

\* C3: a subordinate that never signalled causes no registration call, and
\* once it has exited the launcher is not blocked and ends with
\* 'Xephyr launch failed'.
C3_SpawnFailure ==
    /\ signalsSent = 0 => regLog = <<>>
    /\ (child \in {"zombie", "reaped"} /\ signalsSent = 0 /\ InCommand)
          => ENABLED ParentNext
    /\ (child \in {"zombie", "reaped"} /\ signalsSent = 0 /\ pc = "done")
          => outcome = Raises(LaunchFailed)

C3_Witness ==
    /\ pc = "done"
    /\ child = "reaped"
    /\ signalsSent = 0
    /\ regLog = <<>>
    /\ outcome = Raises(LaunchFailed)

\* C4: an operation that ends with 'Xephyr launch failed' has made no
\* registration call.
C4_NoLostNotification ==
    outcome = Raises(LaunchFailed) => regLog = <<>>

\* The allocation loop has just ended: the markers it read are still in
\* the state.
AllocJustDone ==
    \/ pc = "arm"
    \/ pc = "done" /\ handler = "SIG_DFL" /\ probes > 0

FreeNumbers == Numbers \ markers

Lowest(S) == CHOOSE n \in S : \A m \in S : n <= m

\* C5: the allocation yields the lowest number of the probed range that has
\* no lock marker; when every number is marked the launch fails with
\* 'Did not find a free X11 display number!', nothing is spawned and no
\* remote call is made.
C5_LowestFreeNumber ==
    AllocJustDone =>
        IF FreeNumbers # {}
          THEN pc = "arm" /\ xephyr_display_number = Lowest(FreeNumbers)
          ELSE /\ outcome = Raises(NoFreeDisplay)
               /\ child = "none"
               /\ regLog = <<>>

ProbedFaults == {n \in faults : n < probes}

\* C6: a probe that ends with an error other than ENOENT is fatal: the
\* allocation ends with an error at that probe, it neither yields a number
\* nor probes the next one.
C6_ProbeErrorIsFatal ==
    (AllocJustDone /\ ProbedFaults # {}) =>
        /\ pc = "done"
        /\ outcome.kind = "raise"
        /\ probes = Lowest(ProbedFaults) + 1

HasDesignator(args) == \E i \in DOMAIN args : args[i].text = ":"

Designator(args) ==
    args[CHOOSE i \in DOMAIN args : args[i].text = ":"].display

\* The display numbers on the command line of the subordinate.
CmdDisplays == {xephyr_cmd[i].display : i \in {k \in DOMAIN xephyr_cmd : xephyr_cmd[k].text = ":"}}

\* C7: with a display designator among the passthrough arguments no lock
\* marker is probed, and the designator's number is the one given to the
\* subordinate and to the registration call.
C7_ExplicitDesignator ==
    HasDesignator(xephyr_args) =>
        /\ probes = 0
        /\ CmdDisplays \subseteq {Designator(xephyr_args)}
        /\ \A i \in DOMAIN regLog : regLog[i].display = Designator(xephyr_args)

----------------------------------------------------------------------------
(* Properties of list_seats *)

\* The place of a token in the order of its first character (ASCII).
TokenRank(t) ==
    IF t = "/" THEN 0
    ELSE IF t \in Digits
      THEN CHOOSE k \in 1 .. 10 :
              t = <<"0", "1", "2", "3", "4", "5", "6", "7", "8", "9">>[k]
    ELSE IF t = "DisplayManager" THEN 11
    ELSE IF t = "Seat" THEN 12
    ELSE IF t = "Session" THEN 13
    ELSE IF t = "freedesktop" THEN 14
    ELSE 15

\* a <= b as strings.
RECURSIVE StrLeq(_, _)
StrLeq(a, b) ==
    IF a = <<>> THEN TRUE
    ELSE IF b = <<>> THEN FALSE
    ELSE IF Head(a) = Head(b) THEN StrLeq(Tail(a), Tail(b))
    ELSE TokenRank(Head(a)) < TokenRank(Head(b))

\* The seats rendered, in the order of the output.
SeatsRendered ==
    LET fs == SelectSeq(fetched, LAMBDA f : f.via = DMPath)
    IN  [i \in DOMAIN fs |-> fs[i].path]

\* C8: the seats are rendered in ascending order of their object paths,
\* whatever the order of the manager's Seats property.
C8_SeatsSorted ==
    \A i, j \in DOMAIN SeatsRendered :
        i < j => StrLeq(SeatsRendered[i], SeatsRendered[j])

\* C9: no properties are fetched for, and no child is rendered from, the
\* path a node was reached from.
C9_NoDescentIntoParent ==
    \A i \in DOMAIN fetched : fetched[i].path # fetched[i].via

FetchFailed == \E i \in DOMAIN fetched : ~fetched[i].ok

\* C10: once a property fetch has failed the command is over, it raised
\* that error and returned no report; no fetch follows the failed one.
C10_NoPartialReport ==
    FetchFailed =>
        /\ pc = "done"
        /\ outcome = Raises(DBusError)
        /\ report = NoReport
        /\ \A i \in DOMAIN fetched : ~fetched[i].ok => i = Len(fetched)

C10_Witness ==
    /\ FetchFailed
    /\ Len(fetched) >= 3
    /\ \E i \in DOMAIN output : output[i].indent = 4
    /\ outcome = Raises(DBusError)
    /\ report = NoReport

----------------------------------------------------------------------------
(* The signal disposition and the registration calls *)

\* C11: on every exit path of add_nested_seat the disposition of SIGUSR1 is
\* again what it was before the operation began (SIG_DFL at start-up).
C11_DispositionRestored == pc = "done" => handler = "SIG_DFL"

\* Xephyr has signalled readiness and has exited.
SignalledAndExited == signalsSent >= 1 /\ child \in {"zombie", "reaped"}

\* C12: once Xephyr has both signalled readiness and exited, in whatever
\* order the parent gets to see the two, add_nested_seat reaches its end:
\* it does not stay blocked in the wait.
C12_SignalAndExitTerminate == SignalledAndExited ~> (pc = "done")

C12_Witness ==
    /\ pc = "done"
    /\ SignalledAndExited
    /\ child = "reaped"
    /\ regLog # <<>>

\* The subordinate has been forked.
Spawned == child # "none"

\* C15: the handler is installed before the fork, so every SIGUSR1 of the
\* subordinate meets the handler and a pending one is cleared by nothing
\* but a run of the handler, which makes one AddLocalXSeat call; a call is
\* made only once the subordinate was spawned and has signalled; the
\* number passed is the one allocated, given to the subordinate as ':N'.
C15_ArmSpawnNotifyRegister ==
    /\ [](Spawned => handler = "xephyr_signal_cb")
    /\ [](tripped => Spawned /\ signalsSent >= 1)
    /\ [](regLog # <<>> => Spawned /\ signalsSent >= Len(regLog))
    /\ [](\A i \in DOMAIN regLog :
            /\ regLog[i].display = xephyr_display_number
            /\ xephyr_cmd[2] = DisplayArg(regLog[i].display))
    /\ [][tripped /\ ~tripped' => regLog' = Append(regLog, regLog'[Len(regLog')])]_vars

C15_Witness ==
    /\ regLog # <<>>
    /\ regLog[1].ok
    /\ xephyr_cmd[2] = DisplayArg(regLog[1].display)
    /\ regLog[1].display > 0
    /\ child = "running"

----------------------------------------------------------------------------
(* Further properties of list_seats *)

\* An object path without its trailing digits and its leading separator,
\* the remaining separators turned into dots.
PathToInterface(p) ==
    LET q == RStripDigits(p)
    IN  [i \in 1 .. Len(q) - 1 |-> IF q[i + 1] = "/" THEN "." ELSE q[i + 1]]

\* C13: for every object whose properties list_seats fetches, the interface
\* name passed to GetAll is the object's path with exactly its trailing run
\* of digits stripped and its separators in dotted form; it depends on the
\* path alone.
C13_InterfaceFromPath ==
    /\ \A i \in DOMAIN fetched :
          fetched[i].intf = PathToInterface(fetched[i].path)
    /\ \A i, j \in DOMAIN fetched :
          fetched[i].path = fetched[j].path => fetched[i].intf = fetched[j].intf

C13_Witness ==
    /\ \E i \in DOMAIN fetched : fetched[i].path = DMPath
    /\ \E i \in DOMAIN fetched : fetched[i].path = Seat1
    /\ \E i \in DOMAIN fetched : fetched[i].path = Session10

----------------------------------------------------------------------------
(* Properties of _dbus_call *)

\* XDG_SEAT_PATH is not defined, or its value does not even begin like the
\* path of a seat.
SeatPathUnusable ==
    \A p \in xdg_seat_path : ~StartsWith(p, SeatPath(<<>>))

\* C14: a seat method called while XDG_SEAT_PATH is absent or malformed
\* ends in the configuration error and nothing is sent over the bus; a seat
\* method that is sent goes to the path held by XDG_SEAT_PATH and never to
\* the fixed seat path prefix.
C14_SeatPathFromEnvironment ==
    /\ (method \in SeatMethods /\ SeatPathUnusable) =>
          /\ sent = <<>>
          /\ pc = "done" => outcome = Raises(ConfigError)
    /\ \A i \in DOMAIN sent :
          sent[i].method \in SeatMethods =>
              /\ sent[i].path \in xdg_seat_path
              /\ sent[i].path # SeatPath(<<>>)

----------------------------------------------------------------------------
(* Properties of the handler over the life of the process *)

\* C16: an invocation of add_nested_seat makes at most one AddLocalXSeat
\* call, however many SIGUSR1 are delivered and whether they arrive before
\* or after the command has ended.
C16_SingleShot == Len(regLog) <= 1

\* The line is a key=value line of a property whose value is a list.
IsListScalar(line) ==
    /\ Len(line.text) >= 3
    /\ line.text[2] = "="
    /\ line.text[3] = "dbus.Array(["

\* The seats and sessions rendered: every successful fetch but the manager's.
IsNode(f) == f.via # NoPath /\ f.ok

\* C17: whatever its name, a property of a seat or session whose value is a
\* list of object paths is never printed as a key=value line, and by the
\* end of a listing every object it lists has been fetched as a child of
\* that node.
C17_DescentByType ==
    /\ \A i \in DOMAIN output : ~IsListScalar(output[i])
    /\ (pc = "done" /\ outcome.kind = "return") =>
          \A i \in DOMAIN fetched :
              IsNode(fetched[i]) =>
                  LET bag == GetAll(remote, fetched[i].path)
                  IN  \A k \in DOMAIN bag :
                          bag[k].type = "Array" =>
                              \A e \in DOMAIN bag[k].val :
                                  \E j \in DOMAIN fetched :
                                      /\ fetched[j].path = bag[k].val[e]
                                      /\ fetched[j].via = fetched[i].path

\* The line is a key=value line.
IsProperty(line) == Len(line.text) >= 2 /\ line.text[2] = "="

\* The path of the node under which the node of line i was reached: the
\* manager for the lines of a seat, the seat for the lines of its sessions.
ParentOfLine(i) ==
    IF output[i].indent < 4
      THEN DMPath
      ELSE LET heads == {k \in 1 .. i : output[k].indent = 0}
               h == CHOOSE k \in heads : \A m \in heads : m <= k
           IN  NameSep \o output[h].text

\* C18: whatever its name, a property whose value is the path of the node's
\* parent is not printed among the node's key=value lines.
C18_ParentValueOmitted ==
    \A i \in DOMAIN output :
        IsProperty(output[i]) =>
            SubSeq(output[i].text, 3, Len(output[i].text)) # ParentOfLine(i)

----------------------------------------------------------------------------
(* Properties of add_nested_seat called repeatedly *)

\* C19: the value an invocation returns is the value of an AddLocalXSeat
\* call made by that invocation, and when an invocation begins nothing of
\* an earlier one is left to read in self._sighandler_result.
C19_LaunchStateOwned ==
    /\ ReturnedSeat => regLog[outcome.val.call].inv = invocation
    /\ pc = "alloc" => sighandler_result = NoVal

----------------------------------------------------------------------------
(* Termination of list_seats *)

\* The paths a listing of r fetches after the manager's: each seat of the
\* list, followed by the entries of its Sessions property.
RECURSIVE SeatFetches(_, _)
SeatFetches(r, ss) ==
    IF ss = <<>> THEN <<>>
    ELSE <<Head(ss)>> \o SessionsOf(r, Head(ss)) \o SeatFetches(r, Tail(ss))

FetchedPaths == [i \in DOMAIN fetched |-> fetched[i].path]

\* C20: list_seats, once entered, ends, cycles in the object graph or not.
\* A listing that returns has fetched the manager once, then each entry of
\* Seats once and each entry of that seat's Sessions once, in order, and
\* nothing else; no fetch is ever made below a session.
C20_ListingTerminates ==
    /\ (pc = "list_dm") ~> (pc = "done")
    /\ [](\A i \in DOMAIN fetched :
            \/ fetched[i].path = DMPath /\ fetched[i].via = NoPath /\ i = 1
            \/ fetched[i].via = DMPath
            \/ \E k \in 1 .. i - 1 :
                  fetched[k].path = fetched[i].via /\ fetched[k].via = DMPath)
    /\ []((pc = "done" /\ outcome.kind = "return" /\ fetched # <<>>) =>
            FetchedPaths = <<DMPath>> \o SeatFetches(remote, remote.seats))

C20_Witness ==
    /\ pc = "done"
    /\ outcome.kind = "return"
    /\ Len(remote.seats) = 2
    /\ remote.seats[1] # remote.seats[2]
    /\ remote.sess[remote.seats[1]] = "self"
    /\ remote.sess[remote.seats[2]] = "two"
    /\ Len(fetched) = 7

====
